---- MODULE Spec2Model ----
(***************************************************************************)
(* Recording coordination of the Obsidian Operator plugin:                 *)
(*   GlobalRecordingState  - the process-wide "who may record" gate        *)
(*   LocalRecordingState   - the per-surface session timer                 *)
(*   RecordingModal / RecordingView / RecordingUI - the surfaces that      *)
(*   drive both through UI events.                                         *)
(* Every handler runs to completion on the single event loop, so every     *)
(* action below is one whole handler.  Handlers are written as functions   *)
(* from a world record to a world record so that the calls a handler makes *)
(* compose in the order the code makes them.                               *)
(***************************************************************************)
EXTENDS Integers, Sequences, FiniteSets, TLC

VARIABLES
    globalState,      \* the GlobalRecordingState object of the plugin
    localStates,      \* the LocalRecordingState objects, by surface / test object
    surfaces,         \* the RecordingModal / RecordingView objects
    intervals,        \* window.setInterval registrations that are live
    now,              \* Date.now()
    instanceCounter,  \* RecordingView.instanceCounter (static)
    unsubscribeFns,   \* unsubscribe closures handed to direct API callers
    loaded,           \* plugin is between onload and onunload
    gateCalls,        \* gate listener invocations made by the last handler
    localCalls,       \* session listener invocations made by the last handler
    lastOp,           \* the last operation and what it returned
    clash,            \* two live surfaces have shared a token at some time
    workspace         \* the workspace leaves and the activateView calls in flight

vars == <<globalState, localStates, surfaces, intervals, now,
          instanceCounter, unsubscribeFns, loaded, gateCalls, localCalls,
          lastOp, clash, workspace>>

----------------------------------------------------------------------------
(* Bounds *)

MaxSurfaces == 2      \* surfaces the plugin creates in one run
NumTokens == 2        \* tokens presented to the gate directly
NumListeners == 2     \* callbacks subscribed directly
MaxClock == 1         \* Date.now() ranges over 0..MaxClock
MaxElapsed == 2       \* ticks delivered to one session
MaxSamples == 3       \* length of a buffer handed to the formatter
MaxSubscribed == 2    \* callbacks a caller keeps subscribed to one service
MaxActivations == 4   \* invocations of the "Operator View" command / ribbon icon

\* Math.random() in thousandths: both ends of [0, 1)
MathRandomValues == {0, 999}

\* Math.floor(Math.random() * 100)
randomSample(thousandths) == (thousandths * 100) \div 1000

\* values the tick callback draws
SampleChoices == {randomSample(u) : u \in MathRandomValues}

\* the value drawn when the timers are driven by the surfaces
SurfaceSamples == {42}

NULL == "null"

----------------------------------------------------------------------------
(* Listeners: a callback subscribed directly (cb) or the updateUI closure  *)
(* of a surface (ui).                                                      *)

cb(n) == [kind |-> "cb", id |-> n]
ui(s) == [kind |-> "ui", id |-> s]

Callbacks == {cb(n) : n \in 1..NumListeners}

\* a callback that writes to the snapshot object it is handed
mut(n) == [kind |-> "mut", id |-> n]

\* the callbacks of a run that has one writing consumer
Consumers == {cb(1), mut(1)}

\* callbacks that call back into the service that is notifying them:
\*   once(n)   calls its own unsubscribe closure
\*   unsub(n)  calls the unsubscribe closure of cb(n)
\*   sub(n)    subscribes cb(n)
once(n) == [kind |-> "once", id |-> n]
unsub(n) == [kind |-> "unsub", id |-> n]
sub(n) == [kind |-> "sub", id |-> n]

\* callbacks that call the gate from inside a notification:
\*   stop(n)   calls stopRecording("token-n")
\*   start(n)  calls tryStartRecording("token-n")
stop(n) == [kind |-> "stop", id |-> n]
start(n) == [kind |-> "start", id |-> n]

SeqRemove(seq, x) == SelectSeq(seq, LAMBDA y : y # x)
SeqAdd(seq, x) == IF \E i \in 1..Len(seq) : seq[i] = x THEN seq ELSE Append(seq, x)
SeqSet(seq) == {seq[i] : i \in 1..Len(seq)}
\* position of x in seq, 0 when absent
IndexOf(seq, x) ==
    IF \E i \in 1..Len(seq) : seq[i] = x
    THEN CHOOSE i \in 1..Len(seq) : seq[i] = x
    ELSE 0

\* app.workspace before any leaf has been opened, no activateView running
NewWorkspace == [leaves |-> <<>>, calls |-> <<>>, revealed |-> 0]

----------------------------------------------------------------------------
(* The world a handler runs in *)

World ==
    [globalState |-> globalState, localStates |-> localStates, surfaces |-> surfaces,
     intervals |-> intervals,
     gateCalls |-> <<>>, localCalls |-> <<>>,
     passes |-> <<>>,
     workspace |-> workspace]

\* tokens of the sessions whose timer is active
ActiveTokens(w) ==
    {w.localStates[s].instanceId : s \in {x \in DOMAIN w.localStates : w.localStates[x].isRecording}}

KnownTokens(w) ==
    ({w.localStates[s].instanceId : s \in DOMAIN w.localStates} \ {NULL})
        \cup {"token-" \o ToString(n) : n \in 1..NumTokens}

----------------------------------------------------------------------------
(* LocalRecordingState: formatting and snapshot *)

padStart2(n) == IF n < 10 THEN "0" \o ToString(n) ELSE ToString(n)

\* variant: minutes wrap at the hour
formatDuration_HourRollover(l) ==
    LET minutes == (l.elapsedSeconds \div 60) % 60
        seconds == l.elapsedSeconds % 60
    IN padStart2(minutes) \o ":" \o padStart2(seconds)

formatDuration(l) ==
    LET minutes == l.elapsedSeconds \div 60
        seconds == l.elapsedSeconds % 60
    IN padStart2(minutes) \o ":" \o padStart2(seconds)

RECURSIVE joinRandoms(_)
joinRandoms(nums) ==
    IF Len(nums) = 1 THEN ToString(nums[1]) \o "..."
    ELSE ToString(nums[1]) \o "..." \o " " \o joinRandoms(Tail(nums))

\* variant: the last sample carries no dots
formatRandomNumbers_BareLast(l) ==
    IF Len(l.randomNumbers) = 0 THEN ""
    ELSE IF Len(l.randomNumbers) = 1 THEN ToString(l.randomNumbers[1])
    ELSE joinRandoms(SubSeq(l.randomNumbers, 1, Len(l.randomNumbers) - 1))
            \o " " \o ToString(l.randomNumbers[Len(l.randomNumbers)])

formatRandomNumbers(l) ==
    IF Len(l.randomNumbers) = 0 THEN "" ELSE joinRandoms(l.randomNumbers)

Local_getState(l) ==
    [isRecording |-> l.isRecording,
     elapsedSeconds |-> l.elapsedSeconds,
     randomNumbers |-> l.randomNumbers,
     formattedDuration |-> formatDuration(l),
     formattedRandoms |-> formatRandomNumbers(l)]

\* variant: getState hands out the internal array
Local_getStateAliases_NoClone(l) == {"randomNumbers"}

\* fields of the object getState() returns that are the very objects the
\* session holds: none, the array is spread into a new one and the other
\* fields are primitives
Local_getStateAliases(l) == {}

NewLocalRecordingState(instanceId) ==
    [instanceId |-> instanceId, isRecording |-> FALSE, elapsedSeconds |-> 0,
     randomNumbers |-> <<>>, intervalId |-> 0, listeners |-> <<>>]

\* the slot of a surface that has not been constructed yet
NoLocalState == NewLocalRecordingState(NULL)

----------------------------------------------------------------------------
(* GlobalRecordingState: queries *)

Global_isRecording(g) == g.recordingInstance # NULL
Global_isRecordingInstance(g, instance) == g.recordingInstance = instance
Global_getCurrentState(g) == g.currentState

NewGlobalRecordingState ==
    [recordingInstance |-> NULL, currentState |-> "idle", listeners |-> <<>>]

\* what the three gate queries answer at one moment
GlobalQueries(w) ==
    [isRecording |-> Global_isRecording(w.globalState),
     instances |-> {t \in KnownTokens(w) : Global_isRecordingInstance(w.globalState, t)},
     state |-> Global_getCurrentState(w.globalState)]

----------------------------------------------------------------------------
(* Surfaces: updateUI, the closure both components are subscribed with *)

\* variant: canRecord is computed as in the first render
updateUI_IdleOnly(w, s) ==
    IF w.surfaces[s].recordingUI = <<>> THEN w
    ELSE LET id == w.localStates[s].instanceId
             localStateData == Local_getState(w.localStates[s])
             isGlobalRecording == Global_isRecording(w.globalState)
             isLocalRecording == Global_isRecordingInstance(w.globalState, id)
         IN [w EXCEPT !.surfaces[s].recordingUI =
                <<[isLocalRecording |-> isLocalRecording,
                   isGlobalRecording |-> isGlobalRecording,
                   canRecord |-> ~isGlobalRecording,
                   durationDisplay |-> localStateData.formattedDuration,
                   randomsDisplay |-> localStateData.formattedRandoms]>>]

updateUI(w, s) ==
    IF w.surfaces[s].recordingUI = <<>> THEN w
    ELSE LET id == w.localStates[s].instanceId
             localStateData == Local_getState(w.localStates[s])
             isGlobalRecording == Global_isRecording(w.globalState)
             isLocalRecording == Global_isRecordingInstance(w.globalState, id)
         IN [w EXCEPT !.surfaces[s].recordingUI =
                <<[isLocalRecording |-> isLocalRecording,
                   isGlobalRecording |-> isGlobalRecording,
                   canRecord |-> (~isGlobalRecording) \/ isLocalRecording,
                   durationDisplay |-> localStateData.formattedDuration,
                   randomsDisplay |-> localStateData.formattedRandoms]>>]

----------------------------------------------------------------------------
(* Notification *)

\* the stateInfo object after listener l has run on it
Global_listenerWrites(l, stateInfo) ==
    IF l.kind = "mut" THEN [stateInfo EXCEPT !.isRecording = ~@] ELSE stateInfo

\* the state object after listener l has run on it
Local_listenerWrites(l, state) ==
    IF l.kind = "mut" THEN [state EXCEPT !.randomNumbers = Append(@, 0)] ELSE state

(* A Set is iterated live: for ... of visits the entries in insertion order, *)
(* an entry deleted before it is reached is not visited, an entry added      *)
(* while the loop runs is visited.  passes is the stack of the loops that    *)
(* are running, each with the position of the entry it is visiting.          *)

\* the cursors of the loops over owner's set, after the entry at position p
\* has been deleted (p = 0: nothing was deleted)
CursorsAfterDelete(passes, owner, p) ==
    IF passes = <<>> \/ p = 0 THEN passes
    ELSE [k \in 1..Len(passes) |->
            IF passes[k].owner = owner /\ passes[k].at >= p
            THEN [passes[k] EXCEPT !.at = @ - 1]
            ELSE passes[k]]

\* the cursors of the loops over owner's set, after the set has been cleared
CursorsAfterClear(passes, owner) ==
    IF passes = <<>> THEN passes
    ELSE [k \in 1..Len(passes) |->
            IF passes[k].owner = owner THEN [passes[k] EXCEPT !.at = 0] ELSE passes[k]]

RECURSIVE Global_tryStartRecording(_, _)
RECURSIVE Global_stopRecording(_, _)
RECURSIVE Global_subscribe(_, _)
RECURSIVE Global_unsubscribe(_, _)
RECURSIVE Local_subscribe(_, _, _)
RECURSIVE Local_unsubscribe(_, _, _)

\* what a callback does when it is called by the gate
Global_listenerBody(w, l) ==
    CASE l.kind = "ui" -> updateUI(w, l.id)
      [] l.kind = "once" -> Global_unsubscribe(w, l)
      [] l.kind = "unsub" -> Global_unsubscribe(w, cb(l.id))
      [] l.kind = "sub" -> Global_subscribe(w, cb(l.id))
      [] l.kind = "stop" -> Global_stopRecording(w, "token-" \o ToString(l.id))
      [] l.kind = "start" -> Global_tryStartRecording(w, "token-" \o ToString(l.id)).world
      [] OTHER -> w

InvokeGlobalListener(w, l, stateInfo) ==
    Global_listenerBody(
        [w EXCEPT !.gateCalls = Append(@,
            [listener |-> l, snap |-> stateInfo, seen |-> GlobalQueries(w),
             holder |-> w.globalState.recordingInstance,
             active |-> ActiveTokens(w)])],
        l)

\* for (const listener of this.listeners) listener(stateInfo)
RECURSIVE Global_notifyFrom(_, _)
Global_notifyFrom(w, stateInfo) ==
    LET k == Len(w.passes)
        at == w.passes[k].at + 1
    IN IF at > Len(w.globalState.listeners)
       THEN [w EXCEPT !.passes = SubSeq(@, 1, k - 1)]
       ELSE LET l == w.globalState.listeners[at]
                w1 == [w EXCEPT !.passes[k].at = at]
            IN Global_notifyFrom(InvokeGlobalListener(w1, l, stateInfo),
                                 Global_listenerWrites(l, stateInfo))

\* the object notifyListeners builds once and hands to every listener
Global_stateInfo(g) ==
    [isRecording |-> g.recordingInstance # NULL,
     recordingInstance |-> g.recordingInstance,
     state |-> g.currentState]

Global_notifyListeners(w) ==
    Global_notifyFrom([w EXCEPT !.passes = Append(@, [owner |-> 0, at |-> 0])],
                      Global_stateInfo(w.globalState))

\* what a callback does when it is called by session s
Local_listenerBody(w, s, l) ==
    CASE l.kind = "ui" -> updateUI(w, l.id)
      [] l.kind = "mut" ->
            IF "randomNumbers" \in Local_getStateAliases(w.localStates[s])
            THEN [w EXCEPT !.localStates[s].randomNumbers = Append(@, 0)]
            ELSE w
      [] l.kind = "once" -> Local_unsubscribe(w, s, l)
      [] l.kind = "unsub" -> Local_unsubscribe(w, s, cb(l.id))
      [] l.kind = "sub" -> Local_subscribe(w, s, cb(l.id))
      [] l.kind = "stop" -> Global_stopRecording(w, "token-" \o ToString(l.id))
      [] l.kind = "start" -> Global_tryStartRecording(w, "token-" \o ToString(l.id)).world
      [] OTHER -> w

InvokeLocalListener(w, s, l, state) ==
    Local_listenerBody(
        [w EXCEPT !.localCalls = Append(@,
            [owner |-> s, listener |-> l, snap |-> state,
             seen |-> Local_getState(w.localStates[s]),
             holder |-> w.globalState.recordingInstance,
             active |-> ActiveTokens(w)])],
        s, l)

\* for (const listener of this.listeners) listener(state)
RECURSIVE Local_notifyFrom(_, _, _)
Local_notifyFrom(w, s, state) ==
    LET k == Len(w.passes)
        at == w.passes[k].at + 1
    IN IF at > Len(w.localStates[s].listeners)
       THEN [w EXCEPT !.passes = SubSeq(@, 1, k - 1)]
       ELSE LET l == w.localStates[s].listeners[at]
                w1 == [w EXCEPT !.passes[k].at = at]
            IN Local_notifyFrom(InvokeLocalListener(w1, s, l, state), s,
                                Local_listenerWrites(l, state))

Local_notifyListeners(w, s) ==
    Local_notifyFrom([w EXCEPT !.passes = Append(@, [owner |-> s, at |-> 0])],
                     s, Local_getState(w.localStates[s]))

----------------------------------------------------------------------------
(* GlobalRecordingState: mutators.  Each returns the world after the call; *)
(* tryStartRecording's boolean is the field ret.                           *)

\* variant: the held check is missing
Global_tryStartRecording_AlwaysGrants(w, instance) ==
    LET w1 == [w EXCEPT !.globalState.recordingInstance = instance]
        w2 == [w1 EXCEPT !.globalState.currentState = "recording"]
    IN [world |-> Global_notifyListeners(w2), ret |-> TRUE]

\* variant: the holder may acquire again
Global_tryStartRecording_Reentrant(w, instance) ==
    IF w.globalState.recordingInstance # NULL /\ w.globalState.recordingInstance # instance
    THEN [world |-> w, ret |-> FALSE]
    ELSE LET w1 == [w EXCEPT !.globalState.recordingInstance = instance]
             w2 == [w1 EXCEPT !.globalState.currentState = "recording"]
         IN [world |-> Global_notifyListeners(w2), ret |-> TRUE]

\* variant: listeners are notified before currentState is assigned
Global_tryStartRecording_NotifiesEarly(w, instance) ==
    IF w.globalState.recordingInstance # NULL
    THEN [world |-> w, ret |-> FALSE]
    ELSE LET w1 == [w EXCEPT !.globalState.recordingInstance = instance]
             w2 == Global_notifyListeners(w1)
         IN [world |-> [w2 EXCEPT !.globalState.currentState = "recording"], ret |-> TRUE]

Global_tryStartRecording(w, instance) ==
    IF w.globalState.recordingInstance # NULL
    THEN [world |-> w, ret |-> FALSE]
    ELSE LET w1 == [w EXCEPT !.globalState.recordingInstance = instance]
             w2 == [w1 EXCEPT !.globalState.currentState = "recording"]
         IN [world |-> Global_notifyListeners(w2), ret |-> TRUE]

\* variant: any caller may release
Global_stopRecording_AnyToken(w, instance) ==
    LET w1 == [w EXCEPT !.globalState.recordingInstance = NULL]
        w2 == [w1 EXCEPT !.globalState.currentState = "idle"]
    IN Global_notifyListeners(w2)

\* variant: the holder is not cleared on release
Global_stopRecording_KeepsHolder(w, instance) ==
    IF w.globalState.recordingInstance = instance
    THEN Global_notifyListeners([w EXCEPT !.globalState.currentState = "idle"])
    ELSE w

Global_stopRecording(w, instance) ==
    IF w.globalState.recordingInstance = instance
    THEN LET w1 == [w EXCEPT !.globalState.recordingInstance = NULL]
             w2 == [w1 EXCEPT !.globalState.currentState = "idle"]
         IN Global_notifyListeners(w2)
    ELSE w

\* variant: the listeners are kept in an array
Global_subscribe_Array(w, listener) ==
    [w EXCEPT !.globalState.listeners = Append(@, listener)]

\* variant: the new listener is called at once with the current state
Global_subscribe_CallsBack(w, listener) ==
    InvokeGlobalListener([w EXCEPT !.globalState.listeners = SeqAdd(@, listener)],
                         listener, Global_stateInfo(w.globalState))

Global_subscribe(w, listener) ==
    [w EXCEPT !.globalState.listeners = SeqAdd(@, listener)]

\* variant: the returned closure removes nothing
Global_unsubscribe_Noop(w, listener) == w

\* variant: a closure whose listener is gone drops the oldest listener
Global_unsubscribe_DropsOldest(w, listener) ==
    IF listener \in SeqSet(w.globalState.listeners)
    THEN [w EXCEPT !.globalState.listeners = SeqRemove(@, listener)]
    ELSE [w EXCEPT !.globalState.listeners = IF @ = <<>> THEN @ ELSE Tail(@)]

Global_unsubscribe(w, listener) ==
    [w EXCEPT !.globalState.listeners = SeqRemove(@, listener),
              !.passes = CursorsAfterDelete(@, 0, IndexOf(w.globalState.listeners, listener))]

\* variant: destroy forgets the phase field
Global_destroy_KeepsPhase(w) ==
    [w EXCEPT !.globalState.recordingInstance = NULL,
              !.globalState.listeners = <<>>]

\* variant: destroy leaves the subscribers in place
Global_destroy_KeepsListeners(w) ==
    [w EXCEPT !.globalState.recordingInstance = NULL,
              !.globalState.currentState = "idle"]

Global_destroy(w) ==
    [w EXCEPT !.globalState.recordingInstance = NULL,
              !.globalState.currentState = "idle",
              !.globalState.listeners = <<>>,
              !.passes = CursorsAfterClear(@, 0)]

----------------------------------------------------------------------------
(* LocalRecordingState: mutators *)

\* window.setInterval returns a positive handle that identifies the new timer
\* among the live ones; the smallest free one is handed out
setInterval(ivs) ==
    CHOOSE h \in 1..(Cardinality(ivs) + 1) :
        /\ \A iv \in ivs : iv.id # h
        /\ \A k \in 1..(h - 1) : \E iv \in ivs : iv.id = k

\* variant: the timer starts only if the gate is not held by another token
Local_startRecording_AsksGate(w, s) ==
    IF w.localStates[s].isRecording
          \/ w.globalState.recordingInstance \notin {NULL, w.localStates[s].instanceId}
    THEN w
    ELSE LET handle == setInterval(w.intervals)
             w1 == [w EXCEPT !.localStates[s].isRecording = TRUE,
                             !.localStates[s].elapsedSeconds = 0,
                             !.localStates[s].randomNumbers = <<>>,
                             !.localStates[s].intervalId = handle,
                             !.intervals = @ \cup {[id |-> handle, owner |-> s]}]
         IN Local_notifyListeners(w1, s)

\* variant: the handle of the interval is not kept
Local_startRecording_DropsHandle(w, s) ==
    IF w.localStates[s].isRecording THEN w
    ELSE LET handle == setInterval(w.intervals)
             w1 == [w EXCEPT !.localStates[s].isRecording = TRUE,
                             !.localStates[s].elapsedSeconds = 0,
                             !.localStates[s].randomNumbers = <<>>,
                             !.intervals = @ \cup {[id |-> handle, owner |-> s]}]
         IN Local_notifyListeners(w1, s)

\* variant: the double-start guard is missing
Local_startRecording_NoGuard(w, s) ==
    LET handle == setInterval(w.intervals)
        w1 == [w EXCEPT !.localStates[s].isRecording = TRUE,
                        !.localStates[s].elapsedSeconds = 0,
                        !.localStates[s].randomNumbers = <<>>,
                        !.localStates[s].intervalId = handle,
                        !.intervals = @ \cup {[id |-> handle, owner |-> s]}]
    IN Local_notifyListeners(w1, s)

\* variant: no immediate notification on start
Local_startRecording_Silent(w, s) ==
    IF w.localStates[s].isRecording THEN w
    ELSE LET handle == setInterval(w.intervals)
         IN [w EXCEPT !.localStates[s].isRecording = TRUE,
                      !.localStates[s].elapsedSeconds = 0,
                      !.localStates[s].randomNumbers = <<>>,
                      !.localStates[s].intervalId = handle,
                      !.intervals = @ \cup {[id |-> handle, owner |-> s]}]

Local_startRecording(w, s) ==
    IF w.localStates[s].isRecording THEN w
    ELSE LET handle == setInterval(w.intervals)
             w1 == [w EXCEPT !.localStates[s].isRecording = TRUE,
                             !.localStates[s].elapsedSeconds = 0,
                             !.localStates[s].randomNumbers = <<>>,
                             !.localStates[s].intervalId = handle,
                             !.intervals = @ \cup {[id |-> handle, owner |-> s]}]
         IN Local_notifyListeners(w1, s)

\* variant: the tick counts two seconds
Local_intervalCallback_CountsTwice(w, s, randomNum) ==
    LET w1 == [w EXCEPT !.localStates[s].elapsedSeconds = @ + 2,
                        !.localStates[s].randomNumbers = Append(@, randomNum)]
    IN Local_notifyListeners(w1, s)

\* variant: the timer is a one-shot timeout, gone once it has fired
Local_intervalCallback_OneShot(w, s, randomNum) ==
    LET w1 == [w EXCEPT !.localStates[s].elapsedSeconds = @ + 1,
                        !.localStates[s].randomNumbers = Append(@, randomNum),
                        !.intervals = {iv \in @ : iv.id # w.localStates[s].intervalId}]
    IN Local_notifyListeners(w1, s)

\* variant: the tick ends the session once a sample has been taken
Local_intervalCallback_AutoStops(w, s, randomNum) ==
    LET w1 == [w EXCEPT !.localStates[s].elapsedSeconds = @ + 1,
                        !.localStates[s].randomNumbers = Append(@, randomNum),
                        !.localStates[s].isRecording = FALSE]
    IN Local_notifyListeners(w1, s)

\* the callback startRecording hands to window.setInterval
Local_intervalCallback(w, s, randomNum) ==
    LET w1 == [w EXCEPT !.localStates[s].elapsedSeconds = @ + 1,
                        !.localStates[s].randomNumbers = Append(@, randomNum)]
    IN Local_notifyListeners(w1, s)

clearInterval(ivs, handle) == {iv \in ivs : iv.id # handle}

\* variant: the elapsed time survives the stop
Local_stopRecording_KeepsElapsed(w, s) ==
    LET w1 == [w EXCEPT !.localStates[s].isRecording = FALSE,
                        !.localStates[s].randomNumbers = <<>>]
        w2 == IF w1.localStates[s].intervalId # 0
              THEN [w1 EXCEPT !.intervals = clearInterval(@, w1.localStates[s].intervalId),
                              !.localStates[s].intervalId = 0]
              ELSE w1
    IN Local_notifyListeners(w2, s)

\* variant: a stop of an inactive session returns early
Local_stopRecording_QuietWhenIdle(w, s) ==
    IF ~w.localStates[s].isRecording THEN w
    ELSE LET w1 == [w EXCEPT !.localStates[s].isRecording = FALSE,
                             !.localStates[s].elapsedSeconds = 0,
                             !.localStates[s].randomNumbers = <<>>]
             w2 == IF w1.localStates[s].intervalId # 0
                   THEN [w1 EXCEPT !.intervals = clearInterval(@, w1.localStates[s].intervalId),
                                   !.localStates[s].intervalId = 0]
                   ELSE w1
         IN Local_notifyListeners(w2, s)

\* variant: the interval is not cancelled
Local_stopRecording_LeavesInterval(w, s) ==
    LET w1 == [w EXCEPT !.localStates[s].isRecording = FALSE,
                        !.localStates[s].elapsedSeconds = 0,
                        !.localStates[s].randomNumbers = <<>>,
                        !.localStates[s].intervalId = 0]
    IN Local_notifyListeners(w1, s)

Local_stopRecording(w, s) ==
    LET w1 == [w EXCEPT !.localStates[s].isRecording = FALSE,
                        !.localStates[s].elapsedSeconds = 0,
                        !.localStates[s].randomNumbers = <<>>]
        w2 == IF w1.localStates[s].intervalId # 0
              THEN [w1 EXCEPT !.intervals = clearInterval(@, w1.localStates[s].intervalId),
                              !.localStates[s].intervalId = 0]
              ELSE w1
    IN Local_notifyListeners(w2, s)

Local_subscribe(w, s, listener) ==
    [w EXCEPT !.localStates[s].listeners = SeqAdd(@, listener)]

Local_unsubscribe(w, s, listener) ==
    [w EXCEPT !.localStates[s].listeners = SeqRemove(@, listener),
              !.passes = CursorsAfterDelete(@, s, IndexOf(w.localStates[s].listeners, listener))]

\* variant: the subscribers are kept
Local_destroy_KeepsListeners(w, s) ==
    Local_stopRecording(w, s)

Local_destroy(w, s) ==
    LET w1 == Local_stopRecording(w, s)
    IN [w1 EXCEPT !.localStates[s].listeners = <<>>,
                  !.passes = CursorsAfterClear(@, s)]

----------------------------------------------------------------------------
(* Committing the world a handler leaves behind *)

Commit(w, op) ==
    /\ lastOp' = op
    /\ globalState' = w.globalState
    /\ localStates' = w.localStates
    /\ surfaces' = w.surfaces
    /\ intervals' = w.intervals
    /\ gateCalls' = w.gateCalls
    /\ localCalls' = w.localCalls
    /\ workspace' = w.workspace

\* a UI handler returns nothing to anybody
CommitUI(w) == Commit(w, lastOp)

Op(name, token, result) ==
    [name |-> name, token |-> token, listener |-> cb(0), result |-> result]

\* a subscribe / unsubscribe call and the callback it was made with
OpL(name, token, listener) ==
    [name |-> name, token |-> token, listener |-> listener, result |-> FALSE]

NoSurface ==
    [kind |-> "none", phase |-> "none", recordingUI |-> <<>>,
     unsubscribeGlobal |-> FALSE, unsubscribeLocal |-> FALSE]

----------------------------------------------------------------------------
(* The two services driven directly through their public interface, each   *)
(* on its own, the way the unit tests drive them.                          *)

Tokens == {"token-" \o ToString(n) : n \in 1..NumTokens}
\* the one LocalRecordingState object that is driven directly; several of
\* them side by side are the surfaces of SpecPlugin
Sessions == {1}
SessionId(s) == "token-" \o ToString(s)

InitAPI ==
    /\ globalState = NewGlobalRecordingState
    /\ localStates = [s \in Sessions |-> NewLocalRecordingState(SessionId(s))]
    /\ surfaces = [s \in Sessions |-> NoSurface]
    /\ intervals = {}
    /\ now = 0
    /\ instanceCounter = 0
    /\ unsubscribeFns = {}
    /\ loaded = TRUE
    /\ gateCalls = <<>>
    /\ localCalls = <<>>
    /\ lastOp = Op("new", NULL, FALSE)
    /\ clash = FALSE
    /\ workspace = NewWorkspace

TryStartRecording(t) ==
    LET r == Global_tryStartRecording(World, t)
    IN /\ Commit(r.world, Op("tryStartRecording", t, r.ret))
       /\ UNCHANGED <<now, instanceCounter, unsubscribeFns, loaded, clash>>

\* result records whether the call released the gate (the method returns void)
StopRecording(t) ==
    /\ Commit(Global_stopRecording(World, t),
              Op("stopRecording", t, globalState.recordingInstance = t))
    /\ UNCHANGED <<now, instanceCounter, unsubscribeFns, loaded, clash>>

GlobalSubscribe(l) ==
    /\ Commit(Global_subscribe(World, l), OpL("subscribe", NULL, l))
    /\ unsubscribeFns' = unsubscribeFns \cup {[target |-> 0, listener |-> l]}
    /\ UNCHANGED <<now, instanceCounter, loaded, clash>>

\* the closure returns what Set.delete returns: whether l was subscribed
GlobalUnsubscribe(l) ==
    /\ [target |-> 0, listener |-> l] \in unsubscribeFns
    /\ Commit(Global_unsubscribe(World, l),
              [OpL("unsubscribe", NULL, l) EXCEPT
                  !.result = l \in SeqSet(globalState.listeners)])
    /\ UNCHANGED <<now, instanceCounter, unsubscribeFns, loaded, clash>>

GlobalDestroy ==
    /\ Commit(Global_destroy(World), Op("destroy", NULL, FALSE))
    /\ UNCHANGED <<now, instanceCounter, unsubscribeFns, loaded, clash>>

\* the session methods return void: result records whether the session was
\* recording when the call was made
LocalStartRecording(s) ==
    /\ Commit(Local_startRecording(World, s),
              Op("local.startRecording", localStates[s].instanceId, localStates[s].isRecording))
    /\ UNCHANGED <<now, instanceCounter, unsubscribeFns, loaded, clash>>

LocalStopRecording(s) ==
    /\ Commit(Local_stopRecording(World, s),
              Op("local.stopRecording", localStates[s].instanceId, localStates[s].isRecording))
    /\ UNCHANGED <<now, instanceCounter, unsubscribeFns, loaded, clash>>

LocalSubscribe(s, l) ==
    /\ Commit(Local_subscribe(World, s, l),
              OpL("local.subscribe", localStates[s].instanceId, l))
    /\ unsubscribeFns' = unsubscribeFns \cup {[target |-> s, listener |-> l]}
    /\ UNCHANGED <<now, instanceCounter, loaded, clash>>

LocalUnsubscribe(s, l) ==
    /\ [target |-> s, listener |-> l] \in unsubscribeFns
    /\ Commit(Local_unsubscribe(World, s, l),
              [OpL("local.unsubscribe", localStates[s].instanceId, l) EXCEPT
                  !.result = l \in SeqSet(localStates[s].listeners)])
    /\ UNCHANGED <<now, instanceCounter, unsubscribeFns, loaded, clash>>

LocalDestroy(s) ==
    /\ Commit(Local_destroy(World, s),
              Op("local.destroy", localStates[s].instanceId, localStates[s].isRecording))
    /\ UNCHANGED <<now, instanceCounter, unsubscribeFns, loaded, clash>>

\* the event loop runs the callback of a live interval
IntervalFires(iv, randomNum) ==
    /\ iv \in intervals
    /\ localStates[iv.owner].elapsedSeconds < MaxElapsed
    /\ CommitUI(Local_intervalCallback(World, iv.owner, randomNum))
    /\ UNCHANGED <<now, instanceCounter, unsubscribeFns, loaded, clash>>

\* the gate alone
NextGate ==
    \/ \E t \in Tokens : TryStartRecording(t)
    \/ \E t \in Tokens : StopRecording(t)
    \/ \E l \in Callbacks : GlobalSubscribe(l)
    \/ \E l \in Callbacks : GlobalUnsubscribe(l)
    \/ GlobalDestroy

SpecGate == InitAPI /\ [][NextGate]_vars

\* the session timers alone
NextLocal ==
    \/ \E s \in Sessions : LocalStartRecording(s)
    \/ \E s \in Sessions : LocalStopRecording(s)
    \/ \E s \in Sessions, l \in Callbacks : LocalSubscribe(s, l)
    \/ \E s \in Sessions, l \in Callbacks : LocalUnsubscribe(s, l)
    \/ \E s \in Sessions : LocalDestroy(s)
    \/ \E iv \in intervals, r \in SampleChoices : IntervalFires(iv, r)

SpecLocal == InitAPI /\ [][NextLocal]_vars

\* the gate and one session timer side by side, the gate being asked with
\* the session's token
NextServices ==
    \/ \E s \in Sessions : TryStartRecording(SessionId(s))
    \/ \E s \in Sessions : StopRecording(SessionId(s))
    \/ \E l \in Callbacks : GlobalSubscribe(l)
    \/ \E l \in Callbacks : GlobalUnsubscribe(l)
    \/ GlobalDestroy
    \/ \E s \in Sessions : LocalStartRecording(s)
    \/ \E s \in Sessions : LocalStopRecording(s)
    \/ \E s \in Sessions, l \in Callbacks : LocalSubscribe(s, l)
    \/ \E s \in Sessions, l \in Callbacks : LocalUnsubscribe(s, l)
    \/ \E s \in Sessions : LocalDestroy(s)
    \/ \E iv \in intervals, r \in SurfaceSamples : IntervalFires(iv, r)

SpecServices == InitAPI /\ [][NextServices]_vars

\* the gate and two session timers side by side, nobody subscribed
SessionPair == {1, 2}

InitDecoupled ==
    /\ globalState = NewGlobalRecordingState
    /\ localStates = [s \in SessionPair |-> NewLocalRecordingState(SessionId(s))]
    /\ surfaces = [s \in SessionPair |-> NoSurface]
    /\ intervals = {}
    /\ now = 0
    /\ instanceCounter = 0
    /\ unsubscribeFns = {}
    /\ loaded = TRUE
    /\ gateCalls = <<>>
    /\ localCalls = <<>>
    /\ lastOp = Op("new", NULL, FALSE)
    /\ clash = FALSE
    /\ workspace = NewWorkspace

GateStep ==
    \/ \E t \in Tokens : TryStartRecording(t)
    \/ \E t \in Tokens : StopRecording(t)
    \/ GlobalDestroy

SessionStep(s) ==
    \/ LocalStartRecording(s)
    \/ LocalStopRecording(s)
    \/ LocalDestroy(s)
    \/ \E iv \in intervals, r \in SampleChoices : iv.owner = s /\ IntervalFires(iv, r)

NextDecoupled ==
    \/ GateStep
    \/ \E s \in SessionPair : SessionStep(s)

SpecDecoupled == InitDecoupled /\ [][NextDecoupled]_vars

\* two session timers, nobody subscribed, the event loop running the
\* callback of every live interval again and again (window.setInterval
\* repeats until it is cleared)
TimerFires(s) ==
    \E iv \in intervals, r \in SampleChoices : iv.owner = s /\ IntervalFires(iv, r)

NextTimers == \E s \in SessionPair : SessionStep(s)

SpecTimers ==
    /\ InitDecoupled
    /\ [][NextTimers]_vars
    /\ \A s \in SessionPair : WF_vars(TimerFires(s))

\* the gate and one session with a consumer that writes to its snapshots
NextConsumers ==
    \/ \E s \in Sessions : TryStartRecording(SessionId(s))
    \/ \E s \in Sessions : StopRecording(SessionId(s))
    \/ \E l \in Consumers : GlobalSubscribe(l)
    \/ \E l \in Consumers : GlobalUnsubscribe(l)
    \/ \E s \in Sessions : LocalStartRecording(s)
    \/ \E s \in Sessions : LocalStopRecording(s)
    \/ \E s \in Sessions, l \in Consumers : LocalSubscribe(s, l)
    \/ \E s \in Sessions, l \in Consumers : LocalUnsubscribe(s, l)
    \/ \E iv \in intervals, r \in SurfaceSamples : IntervalFires(iv, r)

SpecConsumers == InitAPI /\ [][NextConsumers]_vars

\* the gate and one session with callbacks that subscribe and unsubscribe
\* while they are being notified; the callers themselves never unsubscribe
Reentrants == {cb(1), once(1), unsub(1), sub(2)}

NextReentrant ==
    \/ \E s \in Sessions : TryStartRecording(SessionId(s))
    \/ \E s \in Sessions : StopRecording(SessionId(s))
    \/ \E l \in Reentrants :
          Len(globalState.listeners) < MaxSubscribed /\ GlobalSubscribe(l)
    \/ \E s \in Sessions : LocalStartRecording(s)
    \/ \E s \in Sessions : LocalStopRecording(s)
    \/ \E s \in Sessions, l \in Reentrants :
          Len(localStates[s].listeners) < MaxSubscribed /\ LocalSubscribe(s, l)
    \/ \E iv \in intervals, r \in SurfaceSamples : IntervalFires(iv, r)

SpecReentrant == InitAPI /\ [][NextReentrant]_vars

\* the gate with callbacks that call tryStartRecording / stopRecording
\* while they are being notified
NestedCallers == {cb(1), cb(2), stop(1), start(2)}

NextNested ==
    \/ \E t \in Tokens : TryStartRecording(t)
    \/ \E t \in Tokens : StopRecording(t)
    \/ \E l \in NestedCallers :
          Len(globalState.listeners) < MaxSubscribed /\ GlobalSubscribe(l)
    \/ \E l \in NestedCallers : GlobalUnsubscribe(l)

SpecNested == InitAPI /\ [][NextNested]_vars

----------------------------------------------------------------------------
(* getState() on a session whose private fields were set directly, the way *)
(* the formatting unit tests set them.                                     *)

DurationInputs == {0, 9, 10, 59, 60, 61, 125, 599, 600, 3599, 3600, 5999, 6000}
SampleInputs == {0, 7, 42, 99}
BufferInputs == UNION {[1..n -> SampleInputs] : n \in 0..MaxSamples}

InitGetState ==
    /\ globalState = NewGlobalRecordingState
    /\ \E e \in DurationInputs, b \in BufferInputs :
          localStates = [s \in Sessions |->
                            [NewLocalRecordingState(SessionId(s)) EXCEPT
                                !.elapsedSeconds = e, !.randomNumbers = b]]
    /\ surfaces = [s \in Sessions |-> NoSurface]
    /\ intervals = {}
    /\ now = 0
    /\ instanceCounter = 0
    /\ unsubscribeFns = {}
    /\ loaded = TRUE
    /\ gateCalls = <<>>
    /\ localCalls = <<>>
    /\ lastOp = Op("new", NULL, FALSE)
    /\ clash = FALSE
    /\ workspace = NewWorkspace

\* const state = session.getState()
GetState(s) ==
    /\ Commit(World, [Op("getState", localStates[s].instanceId, FALSE) EXCEPT
                        !.result = Local_getState(localStates[s])])
    /\ UNCHANGED <<now, instanceCounter, unsubscribeFns, loaded, clash>>

\* const state = session.getState(); state.randomNumbers.push(v)
GetStateThenPush(s, v) ==
    /\ Len(localStates[s].randomNumbers) <= MaxSamples
    /\ LET state == Local_getState(localStates[s])
           w == IF "randomNumbers" \in Local_getStateAliases(localStates[s])
                THEN [World EXCEPT !.localStates[s].randomNumbers = Append(@, v)]
                ELSE World
       IN Commit(w, [Op("getState.push", localStates[s].instanceId, FALSE) EXCEPT
                       !.result = [state EXCEPT !.randomNumbers = Append(@, v)]])
    /\ UNCHANGED <<now, instanceCounter, unsubscribeFns, loaded, clash>>

NextGetState ==
    \/ \E s \in Sessions : GetState(s)
    \/ \E s \in Sessions, v \in SampleInputs : GetStateThenPush(s, v)

SpecGetState == InitGetState /\ [][NextGetState]_vars

----------------------------------------------------------------------------
(* Instance identifiers *)

generateInstanceId(type, timestamp) == type \o "-" \o ToString(timestamp)

\* the template literal of the RecordingView constructor
viewInstanceId(counter, timestamp) ==
    "view-" \o ToString(counter) \o "-" \o ToString(timestamp)

----------------------------------------------------------------------------
(* Surfaces: RecordingModal and RecordingView *)

SurfaceIds == 1..MaxSurfaces

Alive(sf) == sf.phase \in {"constructed", "open"}

\* variant: the timer is started whatever the gate answered
onRecord_StartsAnyway(w, s) ==
    LET r == Global_tryStartRecording(w, w.localStates[s].instanceId)
    IN Local_startRecording(r.world, s)

\* callbacks.onRecord
onRecord(w, s) ==
    LET r == Global_tryStartRecording(w, w.localStates[s].instanceId)
    IN IF r.ret THEN Local_startRecording(r.world, s) ELSE r.world

\* variant: the gate is released before the timer is stopped
onStop_ReleaseFirst(w, s) ==
    Local_stopRecording(Global_stopRecording(w, w.localStates[s].instanceId), s)

\* callbacks.onStop
onStop(w, s) ==
    Global_stopRecording(Local_stopRecording(w, s), w.localStates[s].instanceId)

\* variant: the click handler looks at canRecord only
RecordingUI_onclick_IgnoresLocal(props) ==
    IF props.canRecord THEN "onRecord" ELSE "none"

\* RecordingUI: the callback button.onclick calls with the rendered props
RecordingUI_onclick(props) ==
    IF (~props.isLocalRecording) /\ props.canRecord THEN "onRecord" ELSE "none"

\* RecordingUI: a click on the record button of surface s
RecordingUI_buttonClick(w, s) ==
    LET props == w.surfaces[s].recordingUI[1]
    IN IF RecordingUI_onclick(props) = "onRecord" THEN onRecord(w, s) ELSE w

\* RecordingUI: the stop button is rendered only while isLocalRecording
RecordingUI_hasStopButton(sf) ==
    sf.recordingUI # <<>> /\ sf.recordingUI[1].isLocalRecording

\* body of onOpen shared by the modal and the view
onOpen(w, s) ==
    LET id == w.localStates[s].instanceId
        localStateData == Local_getState(w.localStates[s])
        isGlobalRecording == Global_isRecording(w.globalState)
        isLocalRecording == Global_isRecordingInstance(w.globalState, id)
        w1 == [w EXCEPT !.surfaces[s].recordingUI =
                  <<[isLocalRecording |-> isLocalRecording,
                     isGlobalRecording |-> isGlobalRecording,
                     canRecord |-> ~isGlobalRecording,
                     durationDisplay |-> localStateData.formattedDuration,
                     randomsDisplay |-> localStateData.formattedRandoms]>>]
        w2 == [Global_subscribe(w1, ui(s)) EXCEPT !.surfaces[s].unsubscribeGlobal = TRUE]
        w3 == [Local_subscribe(w2, s, ui(s)) EXCEPT !.surfaces[s].unsubscribeLocal = TRUE]
    IN [w3 EXCEPT !.surfaces[s].phase = "open"]

\* variant: Mod+Enter only ever starts
modEnterHandler_StartOnly(w, s) ==
    IF ~Global_isRecording(w.globalState) THEN onRecord(w, s) ELSE w

\* the Mod+Enter handler the modal registers
modEnterHandler(w, s) ==
    LET id == w.localStates[s].instanceId
    IN IF ~Global_isRecording(w.globalState)
       THEN onRecord(w, s)
       ELSE IF Global_isRecordingInstance(w.globalState, id)
            THEN onStop(w, s)
            ELSE w

onClose(w, s) ==
    LET id == w.localStates[s].instanceId
        w1 == IF Global_isRecordingInstance(w.globalState, id) THEN onStop(w, s) ELSE w
        w2 == [w1 EXCEPT !.surfaces[s].recordingUI = <<>>]
        w3 == IF w2.surfaces[s].unsubscribeGlobal
              THEN [Global_unsubscribe(w2, ui(s)) EXCEPT !.surfaces[s].unsubscribeGlobal = FALSE]
              ELSE w2
        w4 == IF w3.surfaces[s].unsubscribeLocal
              THEN [Local_unsubscribe(w3, s, ui(s)) EXCEPT !.surfaces[s].unsubscribeLocal = FALSE]
              ELSE w3
        w5 == Local_destroy(w4, s)
    IN [w5 EXCEPT !.surfaces[s].phase = "closed"]

\* the Mod+Escape handler the modal registers; close() runs onClose
modEscapeHandler(w, s) ==
    LET id == w.localStates[s].instanceId
        w1 == IF Global_isRecordingInstance(w.globalState, id) THEN onStop(w, s) ELSE w
    IN onClose(w1, s)

----------------------------------------------------------------------------
(* A RecordingUI on its own, constructed with arbitrary props and callbacks *)
(* that only record that they were called, the way its unit tests drive it. *)

PropsInputs ==
    [isLocalRecording : BOOLEAN, isGlobalRecording : BOOLEAN, canRecord : BOOLEAN,
     durationDisplay : {"00:00", "00:30"}, randomsDisplay : {"", "11... 22..."}]

\* new RecordingUI(container, props)
InitUI ==
    /\ globalState = NewGlobalRecordingState
    /\ localStates = [s \in Sessions |-> NoLocalState]
    /\ \E props \in PropsInputs :
          surfaces = [s \in Sessions |->
                        [NoSurface EXCEPT !.kind = "ui", !.phase = "open",
                                          !.recordingUI = <<props>>]]
    /\ intervals = {}
    /\ now = 0
    /\ instanceCounter = 0
    /\ unsubscribeFns = {}
    /\ loaded = TRUE
    /\ gateCalls = <<>>
    /\ localCalls = <<>>
    /\ lastOp = Op("new RecordingUI", NULL, FALSE)
    /\ clash = FALSE
    /\ workspace = NewWorkspace

\* ui.updateProps(newProps)
UpdateProps(s, newProps) ==
    /\ Commit([World EXCEPT !.surfaces[s].recordingUI = <<newProps>>],
              Op("updateProps", NULL, FALSE))
    /\ UNCHANGED <<now, instanceCounter, unsubscribeFns, loaded, clash>>

\* ui.getButton().click(): result records whether onRecord was called
ClickRecord(s) ==
    /\ Commit(World, Op("button.click", NULL,
                        RecordingUI_onclick(surfaces[s].recordingUI[1]) = "onRecord"))
    /\ UNCHANGED <<now, instanceCounter, unsubscribeFns, loaded, clash>>

\* a click on the stop button, which calls onStop
ClickStop(s) ==
    /\ RecordingUI_hasStopButton(surfaces[s])
    /\ Commit(World, Op("stopButton.click", NULL, TRUE))
    /\ UNCHANGED <<now, instanceCounter, unsubscribeFns, loaded, clash>>

NextUI ==
    \/ \E s \in Sessions, props \in PropsInputs : UpdateProps(s, props)
    \/ \E s \in Sessions : ClickRecord(s)
    \/ \E s \in Sessions : ClickStop(s)

SpecUI == InitUI /\ [][NextUI]_vars

----------------------------------------------------------------------------
(* The plugin driven by its commands and the UI events of its surfaces *)

InitPlugin ==
    /\ globalState = NewGlobalRecordingState
    /\ localStates = [s \in SurfaceIds |-> NoLocalState]
    /\ surfaces = [s \in SurfaceIds |-> NoSurface]
    /\ intervals = {}
    /\ now = 0
    /\ instanceCounter = 0
    /\ unsubscribeFns = {}
    /\ loaded = TRUE
    /\ gateCalls = <<>>
    /\ localCalls = <<>>
    /\ lastOp = Op("onload", NULL, FALSE)
    /\ clash = FALSE
    /\ workspace = NewWorkspace

\* surfaces take the slots in order
FreeSlot(s) ==
    /\ surfaces[s].phase = "none"
    /\ \A x \in SurfaceIds : x < s => surfaces[x].phase # "none"

SharesToken(s, id) ==
    \E x \in SurfaceIds : x # s /\ Alive(surfaces[x]) /\ localStates[x].instanceId = id

\* ribbon icon / command: new RecordingModal(app, globalState).open()
OpenModal(s) ==
    /\ loaded
    /\ FreeSlot(s)
    /\ LET id == generateInstanceId("modal", now)
           w1 == [World EXCEPT !.localStates[s] = NewLocalRecordingState(id),
                               !.surfaces[s].kind = "modal",
                               !.surfaces[s].phase = "constructed"]
       IN /\ CommitUI(onOpen(w1, s))
          /\ clash' = (clash \/ SharesToken(s, id))
    /\ UNCHANGED <<now, instanceCounter, unsubscribeFns, loaded>>

\* the view factory registered with registerView: new RecordingView(leaf, globalState)
CreateView(s) ==
    /\ loaded
    /\ FreeSlot(s)
    /\ LET id == viewInstanceId(instanceCounter + 1, now)
           w1 == [World EXCEPT !.localStates[s] = NewLocalRecordingState(id),
                               !.surfaces[s].kind = "view",
                               !.surfaces[s].phase = "constructed"]
       IN /\ CommitUI(w1)
          /\ clash' = (clash \/ SharesToken(s, id))
    /\ instanceCounter' = instanceCounter + 1
    /\ UNCHANGED <<now, unsubscribeFns, loaded>>

ViewOnOpen(s) ==
    /\ surfaces[s].kind = "view"
    /\ surfaces[s].phase = "constructed"
    /\ CommitUI(onOpen(World, s))
    /\ UNCHANGED <<now, instanceCounter, unsubscribeFns, loaded, clash>>

RecordClick(s) ==
    /\ surfaces[s].phase = "open"
    /\ surfaces[s].recordingUI # <<>>
    /\ CommitUI(RecordingUI_buttonClick(World, s))
    /\ UNCHANGED <<now, instanceCounter, unsubscribeFns, loaded, clash>>

StopClick(s) ==
    /\ surfaces[s].phase = "open"
    /\ RecordingUI_hasStopButton(surfaces[s])
    /\ CommitUI(onStop(World, s))
    /\ UNCHANGED <<now, instanceCounter, unsubscribeFns, loaded, clash>>

ModEnter(s) ==
    /\ surfaces[s].kind = "modal"
    /\ surfaces[s].phase = "open"
    /\ CommitUI(modEnterHandler(World, s))
    /\ UNCHANGED <<now, instanceCounter, unsubscribeFns, loaded, clash>>

ModEscape(s) ==
    /\ surfaces[s].kind = "modal"
    /\ surfaces[s].phase = "open"
    /\ CommitUI(modEscapeHandler(World, s))
    /\ UNCHANGED <<now, instanceCounter, unsubscribeFns, loaded, clash>>

Close(s) ==
    /\ surfaces[s].phase = "open"
    /\ CommitUI(onClose(World, s))
    /\ UNCHANGED <<now, instanceCounter, unsubscribeFns, loaded, clash>>

\* a millisecond passes (Date.now() is read only when a surface is constructed)
ClockAdvances ==
    /\ now < MaxClock
    /\ loaded
    /\ \E s \in SurfaceIds : FreeSlot(s)
    /\ now' = now + 1
    /\ CommitUI(World)
    /\ UNCHANGED <<instanceCounter, unsubscribeFns, loaded, clash>>

\* ObsidianOperatorPlugin.onunload
Unload ==
    /\ loaded
    /\ loaded' = FALSE
    /\ CommitUI(Global_destroy(World))
    /\ UNCHANGED <<now, instanceCounter, unsubscribeFns, clash>>

NextPlugin ==
    \/ \E s \in SurfaceIds : OpenModal(s)
    \/ \E s \in SurfaceIds : CreateView(s)
    \/ \E s \in SurfaceIds : ViewOnOpen(s)
    \/ \E s \in SurfaceIds : RecordClick(s)
    \/ \E s \in SurfaceIds : StopClick(s)
    \/ \E s \in SurfaceIds : ModEnter(s)
    \/ \E s \in SurfaceIds : ModEscape(s)
    \/ \E s \in SurfaceIds : Close(s)
    \/ \E iv \in intervals, r \in SurfaceSamples : IntervalFires(iv, r)
    \/ ClockAdvances

SpecPlugin == InitPlugin /\ [][NextPlugin]_vars

\* the plugin's whole life, onunload included
NextLifecycle ==
    \/ NextPlugin
    \/ Unload

SpecLifecycle == InitPlugin /\ [][NextLifecycle]_vars

\* commands, UI events and onunload, with no second elapsing in between
NextEvents ==
    \/ \E s \in SurfaceIds : OpenModal(s)
    \/ \E s \in SurfaceIds : CreateView(s)
    \/ \E s \in SurfaceIds : ViewOnOpen(s)
    \/ \E s \in SurfaceIds : RecordClick(s)
    \/ \E s \in SurfaceIds : StopClick(s)
    \/ \E s \in SurfaceIds : ModEnter(s)
    \/ \E s \in SurfaceIds : ModEscape(s)
    \/ \E s \in SurfaceIds : Close(s)
    \/ ClockAdvances
    \/ Unload

SpecEvents == InitPlugin /\ [][NextEvents]_vars

----------------------------------------------------------------------------
(* The "Operator View" command: activateView and the workspace it asks.     *)
(* activateView is async: it runs up to its await in the handler of the     *)
(* command and the rest when the promise of setViewState is resolved.       *)

RECORDING_VIEW_TYPE == "operator-recording-view"

\* workspace.getLeavesOfType(type), as positions in workspace.leaves
getLeavesOfType(ws, type) == {i \in 1..Len(ws.leaves) : ws.leaves[i].type = type}

\* workspace.getLeaf("tab"): a new, empty leaf
getLeaf(ws) == [ws EXCEPT !.leaves = Append(@, [type |-> "empty"])]

\* workspace.revealLeaf(leaf)
revealLeaf(ws, leaf) == [ws EXCEPT !.revealed = leaf]

\* activateView up to its await.  typeSetAtCall: whether setViewState gives
\* the leaf its view type before it returns its promise or only when the
\* promise is resolved (the workspace decides)
activateView(ws, typeSetAtCall) ==
    LET found == getLeavesOfType(ws, RECORDING_VIEW_TYPE)
    IN IF found # {}
       THEN LET leaf == CHOOSE i \in found : \A j \in found : i <= j
            IN [revealLeaf(ws, leaf) EXCEPT !.calls = Append(@, [pc |-> "done", leaf |-> leaf])]
       ELSE LET ws1 == getLeaf(ws)
                newLeaf == Len(ws1.leaves)
                ws2 == IF typeSetAtCall
                       THEN [ws1 EXCEPT !.leaves[newLeaf].type = RECORDING_VIEW_TYPE]
                       ELSE ws1
            IN [ws2 EXCEPT !.calls = Append(@, [pc |-> "await", leaf |-> newLeaf])]

\* activateView after its await: leaf = newLeaf; workspace.revealLeaf(leaf)
activateView_resume(ws, c) ==
    LET leaf == ws.calls[c].leaf
        ws1 == [ws EXCEPT !.leaves[leaf].type = RECORDING_VIEW_TYPE]
    IN [revealLeaf(ws1, leaf) EXCEPT !.calls[c].pc = "done"]

\* ribbon icon / command "Operator View"
ActivateView ==
    /\ loaded
    /\ Len(workspace.calls) < MaxActivations
    /\ \E typeSetAtCall \in BOOLEAN :
          Commit([World EXCEPT !.workspace = activateView(@, typeSetAtCall)],
                 Op("activateView", NULL, getLeavesOfType(workspace, RECORDING_VIEW_TYPE) # {}))
    /\ UNCHANGED <<now, instanceCounter, unsubscribeFns, loaded, clash>>

\* the promise of setViewState is resolved and activateView call c goes on
SetViewStateResolves(c) ==
    /\ c \in 1..Len(workspace.calls)
    /\ workspace.calls[c].pc = "await"
    /\ Commit([World EXCEPT !.workspace = activateView_resume(@, c)],
              Op("activateView.resume", NULL, FALSE))
    /\ UNCHANGED <<now, instanceCounter, unsubscribeFns, loaded, clash>>

NextActivate ==
    \/ ActivateView
    \/ \E c \in 1..MaxActivations : SetViewStateResolves(c)

SpecActivate == InitPlugin /\ [][NextActivate]_vars

----------------------------------------------------------------------------
(* Properties of the gate, checked under SpecGate *)

\* C1 - Gate mutual exclusion: at most one token is the holder at any time,
\* and a tryStartRecording made while the gate is held returns false and
\* leaves the holder as it was, so no second call returns true until the
\* holder has released.
C1_GateMutualExclusion ==
    /\ [](Cardinality(GlobalQueries(World).instances) <= 1)
    /\ [][(lastOp'.name = "tryStartRecording" /\ globalState.recordingInstance # NULL)
            => /\ ~lastOp'.result
               /\ globalState'.recordingInstance = globalState.recordingInstance]_vars

C1_Witness ==
    /\ lastOp.name = "tryStartRecording"
    /\ ~lastOp.result
    /\ globalState.recordingInstance # NULL
    /\ globalState.recordingInstance # lastOp.token

\* C3 - Release authorization: stopRecording(t) sets the gate idle only when
\* t is the holder; otherwise (also when the gate is idle) holder, phase and
\* listeners are unchanged and no listener is notified.
C3_ReleaseAuthorization ==
    [][lastOp'.name = "stopRecording"
         => IF globalState.recordingInstance = lastOp'.token
            THEN /\ globalState'.recordingInstance = NULL
                 /\ globalState'.currentState = "idle"
            ELSE /\ globalState' = globalState
                 /\ gateCalls' = <<>>]_vars

C3_Witness ==
    /\ lastOp.name = "stopRecording"
    /\ ~lastOp.result
    /\ globalState.recordingInstance # NULL
    /\ Len(globalState.listeners) > 0
    /\ gateCalls = <<>>

\* C4 - Self re-acquisition rejected: tryStartRecording(t) while t already
\* holds the gate returns false, changes nothing and notifies nobody.
C4_SelfReacquireRejected ==
    [][(lastOp'.name = "tryStartRecording" /\ globalState.recordingInstance = lastOp'.token)
         => /\ ~lastOp'.result
            /\ globalState' = globalState
            /\ gateCalls' = <<>>]_vars

C4_Witness ==
    /\ lastOp.name = "tryStartRecording"
    /\ ~lastOp.result
    /\ globalState.recordingInstance = lastOp.token
    /\ Len(globalState.listeners) > 0

\* C5 - Idle and hand-off: right after construction and right after every
\* release that took effect the gate is idle with no holder, and a
\* tryStartRecording on an idle gate, by any token, returns true and makes
\* that token the holder.
C5_IdleAndHandOff ==
    /\ []((lastOp.name = "new" \/ (lastOp.name = "stopRecording" /\ lastOp.result))
            => /\ ~Global_isRecording(globalState)
               /\ globalState.recordingInstance = NULL)
    /\ [][(lastOp'.name = "tryStartRecording" /\ globalState.recordingInstance = NULL)
            => /\ lastOp'.result
               /\ globalState'.recordingInstance = lastOp'.token]_vars

C5_Witness ==
    /\ lastOp.name = "stopRecording"
    /\ lastOp.result
    /\ ~Global_isRecording(globalState)

\* C8 - Gate notification counts: a tryStartRecording or stopRecording that
\* takes effect invokes every subscribed listener exactly once and nobody
\* else; a rejected acquire or ignored release invokes none; calling an
\* unsubscribe function removes its listener, and a listener enters the set
\* only through subscribe, so an unsubscribed listener is not invoked again.
C8_GateNotificationCounts ==
    [][/\ lastOp'.name \in {"tryStartRecording", "stopRecording"}
            => IF lastOp'.result
               THEN /\ Len(gateCalls') = Len(globalState.listeners)
                    /\ \A i \in 1..Len(gateCalls') :
                          gateCalls'[i].listener = globalState.listeners[i]
               ELSE gateCalls' = <<>>
       /\ lastOp'.name = "unsubscribe"
            => lastOp'.listener \notin SeqSet(globalState'.listeners)
       /\ \A l \in Callbacks :
            (l \notin SeqSet(globalState.listeners) /\ l \in SeqSet(globalState'.listeners))
                => (lastOp'.name = "subscribe" /\ lastOp'.listener = l)]_vars

C8_Witness ==
    /\ lastOp.name = "stopRecording"
    /\ lastOp.result
    /\ Len(gateCalls) = 1
    /\ \E f \in unsubscribeFns :
          f.target = 0 /\ f.listener \notin SeqSet(globalState.listeners)

\* C9 - Mutation happens-before notification: every snapshot handed to a
\* gate or session listener (on acquire, release, start, stop and tick)
\* equals what the query methods answer at the moment of the call, and both
\* equal the state the component is left in, i.e. the component was fully
\* updated before the first listener ran.  The listeners are the surfaces'
\* updateUI closures, which mutate neither component.
C9_MutationBeforeNotification ==
    /\ \A i \in 1..Len(gateCalls) :
          LET c == gateCalls[i]
          IN /\ c.snap = Global_stateInfo(globalState)
             /\ c.seen.isRecording = c.snap.isRecording
             /\ c.seen.state = c.snap.state
             /\ c.seen.instances = {c.snap.recordingInstance} \ {NULL}
    /\ \A i \in 1..Len(localCalls) :
          LET c == localCalls[i]
          IN /\ c.snap = Local_getState(localStates[c.owner])
             /\ c.seen = c.snap

C9_Witness ==
    /\ Len(gateCalls) > 1
    /\ gateCalls[1].snap.isRecording
    /\ Len(localCalls) > 0
    /\ localCalls[1].snap.isRecording

\* C10 - Gate phase invariant: getCurrentState() is "recording" exactly when
\* a holder is set and "idle" exactly when it is null; "stopping" and
\* "error" are never reached.
C10_GatePhaseInvariant ==
    /\ (Global_getCurrentState(globalState) = "recording") <=> (globalState.recordingInstance # NULL)
    /\ (Global_getCurrentState(globalState) = "idle") <=> (globalState.recordingInstance = NULL)
    /\ Global_getCurrentState(globalState) \notin {"stopping", "error"}

C10_Witness ==
    /\ lastOp.name = "destroy"
    /\ Global_getCurrentState(globalState) = "idle"
    /\ \E f \in unsubscribeFns : f.target = 0

\* C18 - Gate shutdown: destroy() leaves the gate idle, without holder and
\* without listeners, invokes no listener, and isRecording() reads false
\* after every call, a second call in a row included.
C18_GateShutdown ==
    lastOp.name = "destroy" =>
        /\ globalState = NewGlobalRecordingState
        /\ ~Global_isRecording(globalState)
        /\ Global_getCurrentState(globalState) = "idle"
        /\ gateCalls = <<>>

C18_Witness ==
    /\ lastOp.name = "destroy"
    /\ Cardinality({f \in unsubscribeFns : f.target = 0}) >= 2
    /\ globalState.listeners = <<>>

\* the step is a tick of session s
TickStep(s) ==
    \E iv \in intervals, r \in SampleChoices : iv.owner = s /\ IntervalFires(iv, r)

\* the listeners a notification reached, in order
Notified(calls) == [i \in 1..Len(calls) |-> calls[i].listener]

----------------------------------------------------------------------------
(* Properties of both services, checked under SpecServices *)

\* C21 - Subscribing is silent: subscribe() on the gate or on a session
\* invokes no listener and changes no recording state; the next state change
\* (acquire, release, start, stop, tick) reaches every listener subscribed
\* by then.
C21_SubscribeIsSilent ==
    [][/\ \A l \in Callbacks :
             GlobalSubscribe(l) =>
                /\ gateCalls' = <<>> /\ localCalls' = <<>>
                /\ Global_stateInfo(globalState') = Global_stateInfo(globalState)
                /\ localStates' = localStates
                /\ intervals' = intervals
       /\ \A s \in Sessions, l \in Callbacks :
             LocalSubscribe(s, l) =>
                /\ gateCalls' = <<>> /\ localCalls' = <<>>
                /\ Local_getState(localStates'[s]) = Local_getState(localStates[s])
                /\ globalState' = globalState
                /\ intervals' = intervals
       /\ Global_stateInfo(globalState') # Global_stateInfo(globalState)
             => (lastOp'.name = "destroy" \/ Notified(gateCalls') = globalState.listeners)
       /\ \A s \in Sessions :
             Local_getState(localStates'[s]) # Local_getState(localStates[s])
                => Notified(localCalls') = localStates[s].listeners
      ]_vars

C21_Witness ==
    /\ lastOp.name = "local.subscribe"
    /\ lastOp.listener \in SeqSet(localStates[1].listeners)
    /\ localStates[1].isRecording
    /\ localStates[1].elapsedSeconds > 0
    /\ Global_isRecording(globalState)
    /\ globalState.listeners # <<>>
    /\ gateCalls = <<>>
    /\ localCalls = <<>>

\* C22 - Unsubscribe is idempotent: an unsubscribe function called when its
\* listener is no longer subscribed (a second call, or after destroy()) is a
\* silent no-op, and an unsubscribe function never removes any listener but
\* its own.
C22_UnsubscribeIdempotent ==
    [][/\ \A l \in Callbacks :
             GlobalUnsubscribe(l) =>
                /\ gateCalls' = <<>> /\ localCalls' = <<>>
                /\ globalState'.listeners = SeqRemove(globalState.listeners, l)
                /\ Global_stateInfo(globalState') = Global_stateInfo(globalState)
                /\ localStates' = localStates
                /\ l \notin SeqSet(globalState.listeners) => globalState' = globalState
       /\ \A s \in Sessions, l \in Callbacks :
             LocalUnsubscribe(s, l) =>
                /\ gateCalls' = <<>> /\ localCalls' = <<>>
                /\ localStates'[s].listeners = SeqRemove(localStates[s].listeners, l)
                /\ Local_getState(localStates'[s]) = Local_getState(localStates[s])
                /\ globalState' = globalState
                /\ l \notin SeqSet(localStates[s].listeners) => localStates' = localStates
      ]_vars

C22_Witness ==
    /\ lastOp.name = "unsubscribe"
    /\ ~lastOp.result
    /\ globalState.listeners # <<>>
    /\ localStates[1].listeners # <<>>



\* C11 - Timer reset invariant: a session that is not recording (initially,
\* after stopRecording, after destroy) has elapsedSeconds 0 and an empty
\* randomNumbers buffer.
C11_TimerResetInvariant ==
    \A s \in Sessions :
        ~localStates[s].isRecording =>
            /\ localStates[s].elapsedSeconds = 0
            /\ localStates[s].randomNumbers = <<>>

C11_Witness ==
    /\ lastOp.name = "local.stopRecording"
    /\ lastOp.result
    /\ ~localStates[1].isRecording
    /\ Len(localCalls) > 0
    /\ localCalls[1].snap.elapsedSeconds = 0
    /\ localCalls[1].snap.randomNumbers = <<>>

\* C12 - Timer notification sequence: startRecording() on an inactive session
\* notifies every subscriber once, at once, with isRecording true,
\* elapsedSeconds 0 and an empty buffer; every tick notifies every subscriber
\* once with elapsedSeconds one more than before and as many samples as
\* seconds.
C12_TimerNotificationSequence ==
    [][\A s \in Sessions :
          /\ (~localStates[s].isRecording /\ LocalStartRecording(s)) =>
                /\ Notified(localCalls') = localStates[s].listeners
                /\ \A i \in 1..Len(localCalls') :
                      /\ localCalls'[i].snap.isRecording
                      /\ localCalls'[i].snap.elapsedSeconds = 0
                      /\ localCalls'[i].snap.randomNumbers = <<>>
          /\ TickStep(s) =>
                /\ Notified(localCalls') = localStates[s].listeners
                /\ \A i \in 1..Len(localCalls') :
                      /\ localCalls'[i].snap.isRecording
                      /\ localCalls'[i].snap.elapsedSeconds = localStates[s].elapsedSeconds + 1
                      /\ Len(localCalls'[i].snap.randomNumbers) = localStates[s].elapsedSeconds + 1
      ]_vars

C12_Witness ==
    /\ Len(localCalls) >= 2
    /\ localCalls[1].snap.elapsedSeconds = 2
    /\ Len(localCalls[2].snap.randomNumbers) = 2

\* C13 - Tick effect: a tick adds exactly 1 to elapsedSeconds and appends
\* exactly one integer of [0,100) to the buffer; a start sets both to
\* 0 / empty, so that while recording the buffer has elapsedSeconds elements,
\* all in [0,100).
C13_TickEffect ==
    /\ [][\A s \in Sessions :
             /\ TickStep(s) =>
                   /\ localStates'[s].elapsedSeconds = localStates[s].elapsedSeconds + 1
                   /\ Len(localStates'[s].randomNumbers) = Len(localStates[s].randomNumbers) + 1
                   /\ SubSeq(localStates'[s].randomNumbers, 1, Len(localStates[s].randomNumbers))
                         = localStates[s].randomNumbers
                   /\ localStates'[s].randomNumbers[Len(localStates'[s].randomNumbers)] \in 0..99
             /\ (~localStates[s].isRecording /\ LocalStartRecording(s)) =>
                   /\ localStates'[s].elapsedSeconds = 0
                   /\ localStates'[s].randomNumbers = <<>>
         ]_vars
    /\ [](\A s \in Sessions :
             localStates[s].isRecording =>
                /\ Len(localStates[s].randomNumbers) = localStates[s].elapsedSeconds
                /\ \A i \in 1..Len(localStates[s].randomNumbers) :
                      localStates[s].randomNumbers[i] \in 0..99)

C13_Witness ==
    /\ localStates[1].isRecording
    /\ localStates[1].elapsedSeconds = 2
    /\ localStates[1].randomNumbers = <<0, 99>>

\* C14 - Timer start is idempotent: startRecording() on an active session
\* changes nothing, notifies nobody and schedules no second interval.
C14_StartIdempotent ==
    /\ [][\A s \in Sessions :
             (localStates[s].isRecording /\ LocalStartRecording(s)) =>
                /\ localStates' = localStates
                /\ intervals' = intervals
                /\ localCalls' = <<>>
         ]_vars
    /\ [](\A s \in Sessions : Cardinality({iv \in intervals : iv.owner = s}) <= 1)

C14_Witness ==
    /\ lastOp.name = "local.startRecording"
    /\ lastOp.result
    /\ localStates[1].isRecording
    /\ localStates[1].elapsedSeconds > 0
    /\ localStates[1].listeners # <<>>
    /\ localCalls = <<>>

\* C15 - Timer stop always notifies: stopRecording() on a session that is not
\* active leaves isRecording false, elapsedSeconds 0, the buffer empty, and
\* invokes every subscribed listener exactly once.
C15_StopAlwaysNotifies ==
    \A s \in Sessions :
        (lastOp.name = "local.stopRecording" /\ ~lastOp.result) =>
            /\ ~localStates[s].isRecording
            /\ localStates[s].elapsedSeconds = 0
            /\ localStates[s].randomNumbers = <<>>
            /\ Notified(localCalls) = localStates[s].listeners
            /\ \A i \in 1..Len(localCalls) :
                  localCalls[i].snap = Local_getState(localStates[s])

C15_Witness ==
    /\ lastOp.name = "local.stopRecording"
    /\ ~lastOp.result
    /\ Len(localCalls) >= 2

\* C16 - No stray tick after stop: every live interval is the one its
\* session holds and that session is recording, so no tick reaches a session
\* after stopRecording() or destroy() until the next startRecording(), and a
\* restarted session is driven by its new interval only.
C16_NoStrayTick ==
    /\ [](\A iv \in intervals :
             /\ localStates[iv.owner].isRecording
             /\ localStates[iv.owner].intervalId = iv.id)
    /\ [](\A s \in Sessions :
             ~localStates[s].isRecording =>
                /\ localStates[s].intervalId = 0
                /\ \A iv \in intervals : iv.owner # s)
    /\ [][\A s \in Sessions : TickStep(s) => localStates[s].isRecording]_vars

C16_Witness ==
    /\ lastOp.name \in {"local.stopRecording", "local.destroy"}
    /\ lastOp.result
    /\ intervals = {}
    /\ localStates[1].intervalId = 0

\* C17 - Timer state machine: isRecording turns true only by startRecording()
\* and false only by stopRecording() or destroy(); ticks, subscribe and
\* unsubscribe never change it.
C17_TimerStateMachine ==
    [][\A s \in Sessions :
          /\ (~localStates[s].isRecording /\ localStates'[s].isRecording)
                => LocalStartRecording(s)
          /\ (localStates[s].isRecording /\ ~localStates'[s].isRecording)
                => (LocalStopRecording(s) \/ LocalDestroy(s))
          /\ (\/ TickStep(s)
              \/ \E l \in Callbacks : LocalSubscribe(s, l)
              \/ \E l \in Callbacks : LocalUnsubscribe(s, l))
                => localStates'[s].isRecording = localStates[s].isRecording
      ]_vars

C17_Witness ==
    /\ lastOp.name = "local.unsubscribe"
    /\ localStates[1].isRecording
    /\ localStates[1].elapsedSeconds > 0

\* C19 - Timer teardown: destroy() cancels the interval, leaves isRecording
\* false with elapsedSeconds 0 and no subscribers; a listener is only ever
\* subscribed again by subscribe(), and a start, tick or stop invokes
\* subscribed listeners only.
C19_TimerTeardown ==
    /\ [](\A s \in Sessions :
             lastOp.name = "local.destroy" =>
                /\ ~localStates[s].isRecording
                /\ localStates[s].elapsedSeconds = 0
                /\ localStates[s].intervalId = 0
                /\ localStates[s].listeners = <<>>
                /\ \A iv \in intervals : iv.owner # s)
    /\ [](lastOp.name # "local.destroy" =>
             \A i \in 1..Len(localCalls) :
                localCalls[i].listener \in SeqSet(localStates[localCalls[i].owner].listeners))
    /\ [][\A s \in Sessions, l \in Callbacks :
             (l \notin SeqSet(localStates[s].listeners) /\ l \in SeqSet(localStates'[s].listeners))
                => LocalSubscribe(s, l)
         ]_vars

C19_Witness ==
    /\ lastOp.name = "local.destroy"
    /\ lastOp.result
    /\ Len(localCalls) >= 2
    /\ localStates[1].listeners = <<>>

\* C36 - Interval handle matches activity: in every state of a session
\* intervalId is non-null exactly when isRecording is true; an active
\* session has exactly one scheduled interval, the one intervalId names,
\* and an inactive session has none.
C36_IntervalMatchesActivity ==
    \A s \in Sessions :
        LET l == localStates[s]
            mine == {iv \in intervals : iv.owner = s}
        IN /\ (l.intervalId # 0) <=> l.isRecording
           /\ Cardinality(mine) <= 1
           /\ l.isRecording => mine = {[id |-> l.intervalId, owner |-> s]}
           /\ ~l.isRecording => mine = {}

C36_Witness ==
    /\ lastOp.name = "local.startRecording"
    /\ lastOp.result
    /\ localStates[1].isRecording
    /\ localStates[1].elapsedSeconds = 1
    /\ Cardinality(intervals) = 1

\* C35 - Ticks keep firing while active: with the timer scheduler weakly
\* fair, an active session that has counted e seconds either is stopped or
\* destroyed or performs the next tick and counts e + 1, for every e below
\* the bound of the run, so elapsedSeconds of a session that is never
\* stopped reaches every value.  Checked under SpecTimers.
C35_TicksKeepFiring ==
    \A s \in SessionPair : \A e \in 0..(MaxElapsed - 1) :
        (localStates[s].isRecording /\ localStates[s].elapsedSeconds = e)
            ~> (\/ ~localStates[s].isRecording
                \/ localStates[s].elapsedSeconds = e + 1)

C35_Witness ==
    /\ localStates[1].isRecording
    /\ localStates[1].elapsedSeconds = MaxElapsed
    /\ Len(localStates[1].randomNumbers) = MaxElapsed
    /\ localStates[2].isRecording
    /\ localStates[2].elapsedSeconds = 1

----------------------------------------------------------------------------
(* Properties of the surfaces, checked under SpecPlugin *)

LiveSurfaces == {s \in SurfaceIds : Alive(surfaces[s])}
Recorders == {s \in SurfaceIds : localStates[s].isRecording}

\* C2 - System-wide single recorder: while the plugin is loaded and its
\* surfaces are driven by their UI events, at most one surface's
\* LocalRecordingState has isRecording = true.
C2_SingleRecorder ==
    loaded => Cardinality(Recorders) <= 1

\* C7 - Token uniqueness: two distinct surfaces alive at the same time have
\* different tokens.
C7_TokenUniqueness ==
    \A s1, s2 \in LiveSurfaces :
        s1 # s2 => localStates[s1].instanceId # localStates[s2].instanceId

\* C6 - Timer-implies-gate: while the plugin is loaded and no two live
\* surfaces have shared a token, a surface's timer is active only if the gate
\* is held by that surface's token, in every state and at every moment a gate
\* or session listener is invoked.
C6_TimerImpliesGate ==
    (loaded /\ ~clash) =>
        /\ \A s \in Recorders :
              Global_isRecordingInstance(globalState, localStates[s].instanceId)
        /\ \A i \in 1..Len(gateCalls) :
              \A t \in gateCalls[i].active : gateCalls[i].holder = t
        /\ \A i \in 1..Len(localCalls) :
              \A t \in localCalls[i].active : localCalls[i].holder = t

C6_Witness ==
    /\ loaded
    /\ ~clash
    /\ Cardinality({s \in SurfaceIds : surfaces[s].phase = "open"}) >= 2
    /\ Recorders # {}
    /\ Len(localCalls) > 0
    /\ \E i \in 1..Len(gateCalls) : gateCalls[i].listener.id \notin Recorders

\* surface s holds the gate: the gate's holder is its token
HoldsGate(g, s) ==
    Alive(surfaces[s]) /\ Global_isRecordingInstance(g, localStates[s].instanceId)

\* the step closes surface s (onClose, directly or through Mod+Escape)
CloseStep(s) == Close(s) \/ ModEscape(s)

\* what C28 asks of a step that closes surface s
ClosedCleanly(s) ==
    /\ HoldsGate(globalState, s) =>
          /\ ~Global_isRecording(globalState')
          /\ Global_getCurrentState(globalState') = "idle"
    /\ ~localStates'[s].isRecording
    /\ \A iv \in intervals' : iv.owner # s
    /\ \A o \in SurfaceIds \ {s} :
          HoldsGate(globalState, o) =>
             /\ HoldsGate(globalState', o)
             /\ Global_stateInfo(globalState') = Global_stateInfo(globalState)
             /\ localStates'[o] = localStates[o]
             /\ {iv \in intervals' : iv.owner = o} = {iv \in intervals : iv.owner = o}
    /\ ui(s) \notin SeqSet(globalState'.listeners)
    /\ localStates'[s].listeners = <<>>
    /\ surfaces'[s].recordingUI = <<>>

\* C28 - Surface close releases everything: a surface that closes while it
\* holds the gate leaves the gate idle and its timer inactive; one that
\* closes while another surface holds the gate leaves that holder untouched;
\* after onClose none of its listeners is subscribed and no later state
\* change renders it again.
C28_CloseReleasesEverything ==
    /\ [][\A s \in SurfaceIds : CloseStep(s) => ClosedCleanly(s)]_vars
    /\ [](\A s \in SurfaceIds :
             surfaces[s].phase = "closed" =>
                /\ surfaces[s].recordingUI = <<>>
                /\ ui(s) \notin SeqSet(globalState.listeners)
                /\ localStates[s].listeners = <<>>
                /\ ~localStates[s].isRecording)

\* the props surface sf renders agree with gate g for the token id
InSync(g, sf, id) ==
    LET props == sf.recordingUI[1]
    IN /\ props.isGlobalRecording = Global_isRecording(g)
       /\ props.isLocalRecording = Global_isRecordingInstance(g, id)
       /\ props.canRecord = (~Global_isRecording(g) \/ Global_isRecordingInstance(g, id))

Rendered(sf) == sf.phase = "open" /\ sf.recordingUI # <<>>

----------------------------------------------------------------------------
(* Properties of the RecordingUI component, checked under SpecUI *)

\* C33 - RecordingUI click guards: a click on the record button calls
\* onRecord only when the rendered props have canRecord true and
\* isLocalRecording false, and onStop is called only by the stop button,
\* which exists only while the rendered props have isLocalRecording true.
C33_ClickGuards ==
    /\ [](\A s \in Sessions :
             LET props == surfaces[s].recordingUI[1]
             IN /\ (lastOp.name = "button.click" /\ lastOp.result) =>
                      (props.canRecord /\ ~props.isLocalRecording)
                /\ lastOp.name = "stopButton.click" => props.isLocalRecording
                /\ RecordingUI_hasStopButton(surfaces[s]) <=> props.isLocalRecording)
    /\ [][\A s \in Sessions :
             /\ ClickStop(s) => surfaces[s].recordingUI[1].isLocalRecording
             /\ (ClickRecord(s) \/ ClickStop(s)) => surfaces' = surfaces
         ]_vars

C33_Witness ==
    /\ lastOp.name = "button.click"
    /\ ~lastOp.result
    /\ surfaces[1].recordingUI[1].canRecord
    /\ surfaces[1].recordingUI[1].isLocalRecording

----------------------------------------------------------------------------
(* Properties of the record action, checked under SpecEvents *)

\* the step is a record action of surface s (record button or Mod+Enter)
RecordStep(s) == RecordClick(s) \/ ModEnter(s)

\* C29 - Acquire-then-start: a record action starts the surface's timer only
\* together with its own successful acquisition of the gate; a record
\* button pressed while the gate is held, or Mod+Enter while another token
\* holds it, leaves the session inactive, schedules no interval and sends
\* no session notification.
C29_AcquireThenStart ==
    [][\A s \in SurfaceIds :
          LET id == localStates[s].instanceId
          IN /\ (~localStates[s].isRecording /\ localStates'[s].isRecording /\ RecordStep(s)) =>
                   /\ globalState.recordingInstance = NULL
                   /\ globalState'.recordingInstance = id
             /\ (Cardinality(intervals') > Cardinality(intervals) /\ RecordStep(s)) =>
                   /\ globalState.recordingInstance = NULL
                   /\ globalState'.recordingInstance = id
             /\ (\/ globalState.recordingInstance # NULL /\ RecordClick(s)
                 \/ globalState.recordingInstance \notin {NULL, id} /\ ModEnter(s)) =>
                   /\ localStates' = localStates
                   /\ intervals' = intervals
                   /\ localCalls' = <<>>
                   /\ globalState' = globalState
      ]_vars

C29_Witness ==
    /\ ~loaded
    /\ surfaces[1].phase = "open" /\ surfaces[2].phase = "open"
    /\ Global_isRecordingInstance(globalState, localStates[1].instanceId)
    /\ localStates[1].isRecording
    /\ localStates[1].instanceId # localStates[2].instanceId
    /\ surfaces[2].recordingUI[1].canRecord
    /\ ~surfaces[2].recordingUI[1].isLocalRecording
    /\ ~localStates[2].isRecording
    /\ localCalls = <<>>

----------------------------------------------------------------------------
(* Properties of the gate next to two sessions, checked under SpecDecoupled *)

\* C25 - Timer and gate are decoupled: a session operation leaves the gate
\* and the other session as they are, a gate operation (destroy included)
\* leaves every session and every interval as it is, and startRecording()
\* on an inactive session activates it whatever the gate's holder is.
C25_TimerAndGateDecoupled ==
    [][/\ \A s \in SessionPair :
             SessionStep(s) =>
                /\ globalState' = globalState
                /\ gateCalls' = <<>>
                /\ \A o \in SessionPair \ {s} :
                      /\ localStates'[o] = localStates[o]
                      /\ {iv \in intervals' : iv.owner = o} = {iv \in intervals : iv.owner = o}
       /\ GateStep =>
             /\ localStates' = localStates
             /\ intervals' = intervals
             /\ localCalls' = <<>>
       /\ \A s \in SessionPair :
             (~localStates[s].isRecording /\ LocalStartRecording(s)) =>
                /\ localStates'[s].isRecording
                /\ \E iv \in intervals' : iv.owner = s
      ]_vars

C25_Witness ==
    /\ lastOp.name = "local.startRecording"
    /\ lastOp.token = "token-1"
    /\ ~lastOp.result
    /\ localStates[1].isRecording
    /\ localStates[2].isRecording
    /\ globalState.recordingInstance = "token-2"

----------------------------------------------------------------------------
(* Properties of getState(), checked under SpecGetState *)

Digit == <<"0", "1", "2", "3", "4", "5", "6", "7", "8", "9">>
TwoDigits(n) == Digit[(n \div 10) + 1] \o Digit[(n % 10) + 1]

\* C26 - Duration formatting: formattedDuration is floor(elapsedSeconds / 60)
\* zero-padded to at least 2 digits, a colon, and elapsedSeconds mod 60
\* zero-padded to 2 digits, without hour rollover.
C26_DurationFormatting ==
    \A s \in Sessions :
        lastOp.name = "getState" =>
            LET e == localStates[s].elapsedSeconds
                m == e \div 60
                out == lastOp.result.formattedDuration
            IN /\ out = (IF m < 100 THEN TwoDigits(m) ELSE ToString(m)) \o ":" \o TwoDigits(e % 60)
               /\ e = 0 => out = "00:00"
               /\ e = 59 => out = "00:59"
               /\ e = 60 => out = "01:00"
               /\ e = 125 => out = "02:05"
               /\ e = 3600 => out = "60:00"
               /\ e = 6000 => out = "100:00"

C26_Witness ==
    /\ lastOp.name = "getState"
    /\ localStates[1].elapsedSeconds = 3600
    /\ lastOp.result.formattedDuration = "60:00"

\* the buffer written out from its first element on
RECURSIVE SamplesInOrder(_)
SamplesInOrder(nums) ==
    IF nums = <<>> THEN ""
    ELSE LET front == SubSeq(nums, 1, Len(nums) - 1)
             last == ToString(nums[Len(nums)]) \o "..."
         IN IF front = <<>> THEN last ELSE SamplesInOrder(front) \o " " \o last

\* C27 - Sample formatting: formattedRandoms is "" for an empty buffer and
\* otherwise the buffered integers in insertion order, each followed by
\* "...", separated by single spaces.
C27_SampleFormatting ==
    \A s \in Sessions :
        lastOp.name = "getState" =>
            LET nums == localStates[s].randomNumbers
                out == lastOp.result.formattedRandoms
            IN /\ out = SamplesInOrder(nums)
               /\ nums = <<>> => out = ""
               /\ nums = <<42>> => out = "42..."
               /\ nums = <<42, 7, 99>> => out = "42... 7... 99..."

C27_Witness ==
    /\ lastOp.name = "getState"
    /\ localStates[1].randomNumbers = <<42, 7, 99>>
    /\ lastOp.result.formattedRandoms = "42... 7... 99..."

----------------------------------------------------------------------------
(* Properties of notification to writing consumers, under SpecConsumers *)

\* C24 - Fresh snapshot per notification: whatever a consumer does to the
\* snapshot it was handed, every listener invocation receives the
\* component's state as the query methods report it.
C24_FreshSnapshotPerNotification ==
    /\ \A i \in 1..Len(gateCalls) :
          gateCalls[i].snap = Global_stateInfo(globalState)
    /\ \A i \in 1..Len(localCalls) :
          localCalls[i].snap = Local_getState(localStates[localCalls[i].owner])

----------------------------------------------------------------------------
(* Properties of repeated subscription, checked under SpecServices *)

\* the invocations of listener l in a log
CallsOf(calls, l) == {i \in 1..Len(calls) : calls[i].listener = l}

NoDuplicates(seq) == \A i, j \in 1..Len(seq) : i # j => seq[i] # seq[j]

\* C38 - Duplicate subscription is deduplicated: subscribing a callback that
\* is already subscribed to the gate or to a session leaves the listener set
\* as it is, no callback is registered twice or called twice by one
\* notification, and one call of an unsubscribe closure of the callback
\* removes it completely.
C38_SubscriptionDeduplicated ==
    /\ [](\A l \in Callbacks :
             /\ NoDuplicates(globalState.listeners)
             /\ Cardinality(CallsOf(gateCalls, l)) <= 1
             /\ \A s \in Sessions :
                   /\ NoDuplicates(localStates[s].listeners)
                   /\ Cardinality(CallsOf(localCalls, l)) <= 1)
    /\ [][\A l \in Callbacks :
             /\ (GlobalSubscribe(l) /\ l \in SeqSet(globalState.listeners))
                   => globalState'.listeners = globalState.listeners
             /\ GlobalUnsubscribe(l) => l \notin SeqSet(globalState'.listeners)
             /\ \A s \in Sessions :
                   /\ (LocalSubscribe(s, l) /\ l \in SeqSet(localStates[s].listeners))
                         => localStates'[s].listeners = localStates[s].listeners
                   /\ LocalUnsubscribe(s, l) => l \notin SeqSet(localStates'[s].listeners)
         ]_vars

C38_Witness ==
    /\ lastOp.name = "subscribe"
    /\ lastOp.listener = cb(1)
    /\ globalState.listeners = <<cb(1), cb(2)>>

----------------------------------------------------------------------------
(* Properties of notification to re-entrant callbacks *)

\* the step runs one notification pass of the gate
GatePassStep ==
    \/ \E t \in Tokens : TryStartRecording(t) /\ globalState.recordingInstance = NULL
    \/ \E t \in Tokens : StopRecording(t) /\ globalState.recordingInstance = t

\* the step runs one notification pass of session s
LocalPassStep(s) ==
    \/ LocalStartRecording(s) /\ ~localStates[s].isRecording
    \/ LocalStopRecording(s)
    \/ \E iv \in intervals, r \in SurfaceSamples : iv.owner = s /\ IntervalFires(iv, r)

\* the log of a pass that called every listener of the set once and nobody else
CalledExactly(calls, listeners) ==
    /\ \A l \in listeners : Cardinality(CallsOf(calls, l)) = 1
    /\ \A i \in 1..Len(calls) : calls[i].listener \in listeners

\* C32 - Notification iterates a defensive copy of the listener set: a pass
\* invokes every listener that was subscribed when it began exactly once and
\* no listener subscribed during it, whatever the listeners subscribe or
\* unsubscribe while it runs.  Checked under SpecReentrant.
C32_PassIteratesCopy ==
    [][/\ GatePassStep => CalledExactly(gateCalls', SeqSet(globalState.listeners))
       /\ \A s \in Sessions :
             LocalPassStep(s) => CalledExactly(localCalls', SeqSet(localStates[s].listeners))
      ]_vars

\* C37 - Last delivered snapshot is current: after a gate operation other
\* than destroy, also one whose listeners call tryStartRecording or
\* stopRecording themselves, the last snapshot delivered to every listener
\* that is still subscribed is the gate's current state, and a change of the
\* gate's state is delivered to every listener that stays subscribed.
\* Checked under SpecNested.
C37_LastSnapshotCurrent ==
    /\ [](\A l \in SeqSet(globalState.listeners) :
             LET mine == CallsOf(gateCalls, l)
             IN mine # {} =>
                  gateCalls[CHOOSE i \in mine : \A j \in mine : j <= i].snap
                      = Global_stateInfo(globalState))
    /\ [][\A l \in SeqSet(globalState.listeners) \cap SeqSet(globalState'.listeners) :
             Global_stateInfo(globalState') # Global_stateInfo(globalState)
                => CallsOf(gateCalls', l) # {}
         ]_vars

----------------------------------------------------------------------------
(* Properties of the "Operator View" command, checked under SpecActivate *)

\* C34 - Single Recording View: activateView creates no leaf when a leaf of
\* RECORDING_VIEW_TYPE exists, and whatever the interleaving of activateView
\* invocations, one issued while an earlier one awaits setViewState
\* included, at most one leaf of RECORDING_VIEW_TYPE has been created.
C34_SingleRecordingView ==
    /\ [][(ActivateView /\ getLeavesOfType(workspace, RECORDING_VIEW_TYPE) # {})
            => workspace'.leaves = workspace.leaves]_vars
    /\ [](Cardinality(getLeavesOfType(workspace, RECORDING_VIEW_TYPE)) <= 1)

----------------------------------------------------------------------------
(* Properties of the plugin's whole life, checked under SpecLifecycle *)

\* C20 - Plugin unload stops ongoing recordings: after onunload the gate is
\* idle and no open surface's session is still recording or has a live
\* interval.
C20_UnloadStopsRecordings ==
    ~loaded =>
        /\ ~Global_isRecording(globalState)
        /\ Global_getCurrentState(globalState) = "idle"
        /\ Recorders = {}
        /\ intervals = {}

====
